---- MODULE Spec2Model ----
(***************************************************************************)
(* Model of the resource-management core of CodeGraphX:                    *)
(*   - DatabasePool and get_db_connection   (src/database/connection.py)   *)
(*   - Metrics counters used by the pool    (src/modules/metrics.py)       *)
(*   - RequestBatcher                       (src/modules/base.py)          *)
(*   - the retry wrappers AsyncHTTPClient._request_with_retry              *)
(*     (src/modules/base.py) and                                           *)
(*     RepositoryManager._make_request_with_retry                          *)
(*     (src/modules/repository.py)                                         *)
(*                                                                         *)
(* Every pool operation runs its whole body inside `async with self._lock`.*)
(* asyncio.Lock is a FIFO lock: a caller that finds the lock taken (or     *)
(* finds waiters) is appended to the waiter list and the lock is handed to *)
(* the head of that list on release.  A task is therefore modelled by a    *)
(* position pc[t] naming the operation it is in; it executes the body of   *)
(* the operation when it is the lock holder.                               *)
(***************************************************************************)
EXTENDS Integers, Sequences, FiniteSets, TLC

(* ---------------------------- bounds ----------------------------------- *)
NumTasks == 2            \* concurrently running callers
MaxMaxConnections == 2   \* largest max_connections a pool is built with
MaxCreated == 2          \* sqlite3.connect successes per run
MaxCalls == 4            \* operations callers start per run
MaxBroken == 1           \* connections the store stops answering on per run
MaxRequests == 3         \* add_request calls per run
MaxBatchSize == 3        \* largest batch_size a batcher is built with
MaxAttempts == 4         \* largest max_retries a retry wrapper is configured with
MaxBatchWindow == 2      \* largest batch_window a batcher is built with
MaxTime == 3             \* the clock stops here

DefaultBatchSize == 5    \* RequestBatcher.__init__, batch_size: int = 5
DefaultMaxConnections == 5   \* DatabasePool.__init__, max_connections: int = 5
DefaultTimeout == 30         \* DatabasePool.__init__, timeout: int = 30

NoTask == 0
NoConn == 0

\* Delays are counted in tenths of a second.
DefaultMaxRetries == 3       \* RetryConfig.max_retries, AsyncHTTPClient.__init__ max_retries
DefaultRetryDelay == 5       \* RetryConfig.retry_delay = 0.5
DefaultRetryBackoff == 2     \* RetryConfig.retry_backoff = 2.0
DefaultRetryMaxDelay == 100  \* RetryConfig.retry_max_delay = 10.0
HttpRetryDelay == 10         \* AsyncHTTPClient.retry_delay = 1.0
HttpBackoff == 2             \* the literal 2 of `2 ** attempt`
DefaultBatchWindow == 1      \* RequestBatcher.__init__, batch_window: float = 0.1

\* the task running Application (src/main.py), the one caller of
\* validate_connections (initialize) and close_all (cleanup)
Application == 1

ConnIds == 1..MaxCreated

VARIABLES
    max_connections,   \* DatabasePool.max_connections (constructor argument)
    timeout,           \* DatabasePool.timeout (constructor argument), in seconds
    active,            \* DatabasePool._active_connections
    queue,             \* DatabasePool._connection_queue (FIFO, maxsize = max_connections)
    lock,              \* holder of DatabasePool._lock, or NoTask
    lockq,             \* tasks suspended in `async with self._lock`, FIFO
    closed,            \* connections on which close() has been called
    broken,            \* connections on which "SELECT 1" raises sqlite3.Error
    nextId,            \* number of connections created so far (handles 1..nextId)
    poolMetrics,       \* DatabasePool._metrics
    counters,          \* DatabasePool.metrics.counters (Metrics, a defaultdict(int))
    pc,                \* per task: the pool operation it is executing
    arg,               \* per task: the connection passed to return_connection
    held,              \* per task: connections obtained and not yet given back
    result,            \* per task: outcome of its latest get_connection/close_all
    discarded,         \* connections that went through _close_connection
    calls,             \* number of pool operations started
    dequeued,          \* per task: get_connection's local `conn` taken from the queue
    timed_out,         \* per task: wait_for raised TimeoutError in its get_connection
    ctx,               \* per task: state of its get_db_connection context manager
    batch_size,        \* RequestBatcher.batch_size (constructor argument)
    pending,           \* RequestBatcher.pending_requests (request ids, in order)
    block,             \* flush task holding RequestBatcher.lock, or NoTask
    batch_task,        \* RequestBatcher._batch_task: a flush task, or NoTask for None
    fpc,               \* per flush task created so far: its position in _process_batch
    fbatch,            \* per flush task: the batch it took
    fut,               \* per request: the future add_request awaits
    batch_window,      \* RequestBatcher.batch_window (constructor argument)
    now,               \* the event loop's clock
    fcreated,          \* per flush task: the time create_task started it
    appended,          \* per request: the time add_request appended it
    ops,               \* the batches passed to the physical operation, in order
    wrapper,           \* the retry wrapper in use: "AsyncHTTPClient" or "RepositoryManager"
    retry,             \* its configuration (self.max_retries, self.retry_delay or settings.retry)
    rpc,               \* position of the wrapper call: "idle", "call", "sleep", "returned", "raised"
    attempt,           \* loop variable `attempt` (base.py) / `retry_count` (repository.py)
    invoked,           \* number of times the wrapped operation was invoked
    waits,             \* the delays passed to asyncio.sleep, in order
    last_error,        \* class of the latest exception `e` of the operation, "" if none
    completion,        \* what the wrapper call returned or raised
    metrics_counters,  \* RepositoryManager.metrics.counters (Metrics.counters)
    timers,            \* Metrics.timers: per name, the list of recorded durations
    metrics_lock,      \* holder of Metrics._lock, or NoTask
    recorded,          \* the increment and record_time calls made so far, in order
    snapshots,         \* the dictionaries returned by Metrics.get_metrics, in order
    search_cache,      \* the SearchCache(max_size, ttl) call made: its outcome and the object's fields, or NoCache
    search_call,       \* the latest SearchCache.set, get or cleanup call and what it did
    cache_calls,       \* number of cache method calls made so far
    repo_cache,        \* RepositoryCache._cache: per dataset id, its data and timestamp
    cache_duration,    \* RepositoryCache._cache_duration (constructor argument)
    cache_now,         \* time.time(), in seconds since the caches were built
    cache_got          \* what the latest RepositoryCache.get call found and returned

poolVars == <<max_connections, timeout, active, queue, lock, lockq, closed, broken, nextId,
              poolMetrics, counters, pc, arg, held, result, discarded, calls,
              dequeued, timed_out>>
batchVars == <<batch_size, pending, block, batch_task, fpc, fbatch, fut,
               batch_window, now, fcreated, appended, ops>>
retryVars == <<wrapper, retry, rpc, attempt, invoked, waits, last_error, completion>>
metricVars == <<metrics_counters, timers, metrics_lock, recorded, snapshots>>
cacheVars == <<search_cache, search_call, cache_calls, repo_cache, cache_duration, cache_now, cache_got>>
vars == <<max_connections, timeout, active, queue, lock, lockq, closed, broken, nextId,
          poolMetrics, counters, pc, arg, held, result, discarded, calls,
          dequeued, timed_out, ctx,
          batch_size, pending, block, batch_task, fpc, fbatch, fut,
          batch_window, now, fcreated, appended, ops,
          wrapper, retry, rpc, attempt, invoked, waits, last_error, completion,
          metrics_counters, timers, metrics_lock, recorded, snapshots,
          search_cache, search_call, cache_calls, repo_cache, cache_duration, cache_now,
          cache_got>>

(* ---------------------------- helpers ---------------------------------- *)
\* the callers of the run
Tasks == DOMAIN pc

NoResult == [op |-> "", kind |-> "none", conn |-> NoConn, msg |-> "",
             timedOut |-> FALSE, source |-> ""]

NoCtx == [phase |-> "none", attempt |-> 0, conn |-> NoConn, max_retries |-> 0,
          yielded |-> FALSE, got |-> {}, ret |-> {}]

\* Metrics.increment: self.counters[metric] += value on a defaultdict(int)
IncrementOverwrite(c, metric, value) ==
    IF metric \in DOMAIN c THEN [c EXCEPT ![metric] = value]
    ELSE c @@ (metric :> value)

Increment(c, metric, value) ==
    IF metric \in DOMAIN c THEN [c EXCEPT ![metric] = @ + value]
    ELSE c @@ (metric :> value)

\* reading a counter of the defaultdict
Counter(metric) == IF metric \in DOMAIN counters THEN counters[metric] ELSE 0

\* _validate_connection_sync: "SELECT 1" succeeds on the connection
ValidateConnectionSync(c) == c \notin closed /\ c \notin broken

\* get_connection, line 76: the dequeued connection is handed to the caller
\* only when its probe succeeds
HandOutUnchecked(c) == TRUE

HandOut(c) == ValidateConnectionSync(c)

\* get_connection, line 85: room for one more connection
UnderLimitOffByOne(act) == Cardinality(act) <= max_connections

UnderLimit(act) == Cardinality(act) < max_connections

\* the connections left in the idle queue by `self._connection_queue.get()`
QueueAfterGet(q) == Tail(q)

\* _active_connections after `conn = await to_thread(_create_connection)` raised
ActiveAfterFailedCreateAdded(act, c) == act \cup {c}

ActiveAfterFailedCreate(act, c) == act

\* the callers may start another operation
Budget == calls < MaxCalls

\* `async with self._lock` on entry: take the free lock or queue up behind it
LockEnter(t) ==
    IF lock = NoTask /\ lockq = <<>>
    THEN lock' = t /\ lockq' = lockq
    ELSE lock' = lock /\ lockq' = Append(lockq, t)

\* `async with self._lock` on exit: hand the lock to the first waiter
LockExit ==
    IF lockq = <<>>
    THEN lock' = NoTask /\ lockq' = lockq
    ELSE lock' = Head(lockq) /\ lockq' = Tail(lockq)

\* DatabaseError raised by get_connection's `except Exception` wrapper
GetError(cause, timedOut) ==
    [op |-> "get_connection", kind |-> "DatabaseError", conn |-> NoConn,
     msg |-> cause, timedOut |-> timedOut, source |-> ""]

GetOk(c, timedOut, source) ==
    [op |-> "get_connection", kind |-> "ok", conn |-> c, msg |-> "",
     timedOut |-> timedOut, source |-> source]

(* ---------------------------- initial state ---------------------------- *)
\* the timeouts a pool is built with: DB_TIMEOUT may be any non-negative
\* number (settings.py 138-142); 0 and the default stand for "none" and "some"
Timeouts == {0, DefaultTimeout}

\* DatabasePool.__init__ with max_connections = mc and timeout = to, used by
\* the callers ts
PoolBuilt(mc, to, ts) ==
    /\ max_connections = mc
    /\ timeout = to
    /\ active = {}
    /\ queue = <<>>
    /\ lock = NoTask
    /\ lockq = <<>>
    /\ closed = {}
    /\ broken = {}
    /\ nextId = 0
    /\ poolMetrics = [total_connections |-> 0, active_connections |-> 0,
                      connection_errors |-> 0, timeouts |-> 0]
    /\ counters = <<>>
    /\ pc = [t \in ts |-> "idle"]
    /\ arg = [t \in ts |-> NoConn]
    /\ held = [t \in ts |-> {}]
    /\ result = [t \in ts |-> NoResult]
    /\ discarded = {}
    /\ calls = 0
    /\ dequeued = [t \in ts |-> NoConn]
    /\ timed_out = [t \in ts |-> FALSE]
    /\ ctx = [t \in ts |-> NoCtx]

\* DatabasePool.__init__ with the default timeout
PoolConstructed(mc, ts) == PoolBuilt(mc, DefaultTimeout, ts)

\* RequestBatcher.__init__ with batch_size = bs and batch_window = bw
BatcherBuilt(bs, bw) ==
    /\ batch_size = bs
    /\ batch_window = bw
    /\ pending = <<>>
    /\ block = NoTask
    /\ batch_task = NoTask
    /\ fpc = <<>>
    /\ fbatch = <<>>
    /\ fut = <<>>
    /\ now = 0
    /\ fcreated = <<>>
    /\ appended = <<>>
    /\ ops = <<>>

\* RequestBatcher.__init__ with batch_size = bs and the default window
BatcherConstructed(bs) == BatcherBuilt(bs, DefaultBatchWindow)

\* what a wrapper call has returned or raised: kind is the class of the
\* exception ("response" / "None" for a returned value), cause and attempts
\* are the failure text and the count that its message carries
NoCompletion == [kind |-> "none", cause |-> "", attempts |-> 0]

\* settings.retry as shipped (RetryConfig, settings.py lines 52-56)
DefaultRetry ==
    [max_retries |-> DefaultMaxRetries, retry_delay |-> DefaultRetryDelay,
     retry_backoff |-> DefaultRetryBackoff, retry_max_delay |-> DefaultRetryMaxDelay]

\* the values the configuration of a wrapper is drawn from
RetryDelays == {DefaultRetryDelay, 10}
RetryBackoffs == {DefaultRetryBackoff, 3}
RetryMaxDelays == {20, DefaultRetryMaxDelay}

\* the configurations of wrapper w: AsyncHTTPClient takes max_retries from
\* its constructor and has retry_delay = 1.0 and the factor 2 built in;
\* RepositoryManager._make_request_with_retry reads all of settings.retry.
\* retry_max_delay is the setting of settings.retry in both cases.
RetryConfigs(w) ==
    IF w = "AsyncHTTPClient"
    THEN {[max_retries |-> n, retry_delay |-> HttpRetryDelay,
           retry_backoff |-> HttpBackoff, retry_max_delay |-> md] :
             n \in 0..MaxAttempts, md \in RetryMaxDelays}
    ELSE {[max_retries |-> n, retry_delay |-> d,
           retry_backoff |-> b, retry_max_delay |-> md] :
             n \in 0..MaxAttempts, d \in RetryDelays, b \in RetryBackoffs,
             md \in RetryMaxDelays}

\* RepositoryCache.__init__ default: cache_duration = 300 seconds
DefaultCacheDuration == 300

\* no SearchCache(...) call was made, no RepositoryCache.get call was made
NoCache == [called |-> FALSE, max_size |-> 0, ttl |-> 0, error |-> "",
            cache |-> <<>>]
NoGet == [called |-> FALSE, id |-> 0, found |-> FALSE, age |-> 0, data |-> 0]

\* no SearchCache method was called.  op is the method, key its argument,
\* hit whether the key was in the cache, age the age of its entry, found and
\* data what get returned, evicted and evicted_ts whether set deleted an
\* entry and that entry's timestamp, error the exception the call raised
NoCall == [op |-> "", key |-> 0, hit |-> FALSE, age |-> 0, found |-> FALSE,
           data |-> 0, evicted |-> FALSE, evicted_ts |-> 0, error |-> ""]

\* RepositoryCache.__init__ (repository.py 483-486) with cache_duration = d,
\* as RepositoryManager.__init__ runs it; no SearchCache exists
CachesConstructed(d) ==
    /\ search_cache = NoCache
    /\ search_call = NoCall
    /\ cache_calls = 0
    /\ repo_cache = <<>>
    /\ cache_duration = d
    /\ cache_now = 0
    /\ cache_got = NoGet

\* Metrics.__init__: empty counters and timers, a free lock
MetricsConstructed ==
    /\ metrics_counters = <<>>
    /\ timers = <<>>
    /\ metrics_lock = NoTask
    /\ recorded = <<>>
    /\ snapshots = <<>>

\* a wrapper w configured with cfg, before any request
RetryConstructed(w, cfg) ==
    /\ wrapper = w
    /\ retry = cfg
    /\ rpc = "idle"
    /\ attempt = 0
    /\ invoked = 0
    /\ waits = <<>>
    /\ last_error = ""
    /\ completion = NoCompletion

Init ==
    /\ \E mc \in 1..MaxMaxConnections : \E to \in Timeouts :
          PoolBuilt(mc, to, 1..NumTasks)
    /\ BatcherConstructed(DefaultBatchSize)
    /\ RetryConstructed("RepositoryManager", DefaultRetry)
    /\ MetricsConstructed
    /\ CachesConstructed(DefaultCacheDuration)

(* ---------------------------- get_connection --------------------------- *)
\* a task calls pool.get_connection() and reaches `async with self._lock`
StartGet(t) ==
    /\ pc[t] = "idle"
    /\ pc' = [pc EXCEPT ![t] = "get"]
    /\ result' = [result EXCEPT ![t] = NoResult]
    /\ dequeued' = [dequeued EXCEPT ![t] = NoConn]
    /\ timed_out' = [timed_out EXCEPT ![t] = FALSE]
    /\ calls' = calls + 1
    /\ LockEnter(t)
    /\ UNCHANGED <<max_connections, timeout, active, queue, closed, broken, nextId,
                   poolMetrics, counters, arg, held, discarded>>

\* lines 72-75, `asyncio.wait_for(self._connection_queue.get(), timeout)`
\* made with the pool lock held: it raises TimeoutError when the queue is
\* empty (nothing can be put while the caller holds the lock) and, with a
\* timeout of 0 or less, also when the queue holds connections: wait_for
\* cancels the get before it has run
WaitForTimesOut(q) == q = <<>> \/ timeout <= 0

\* lines 72-75 with a positive timeout and an idle connection: wait_for runs
\* queue.get() in a task of its own, so the entry leaves the queue while the
\* caller is still suspended in wait_for, the lock held
GetDequeue(t) ==
    /\ pc[t] = "get" /\ lock = t
    /\ ~WaitForTimesOut(queue)
    /\ dequeued' = [dequeued EXCEPT ![t] = Head(queue)]
    /\ queue' = QueueAfterGet(queue)
    /\ pc' = [pc EXCEPT ![t] = "probe"]
    /\ UNCHANGED <<max_connections, timeout, timed_out, active, lock, lockq, closed,
                   broken, nextId, poolMetrics, counters, arg, held, result,
                   discarded, calls>>

\* lines 91-92 and the wrapper of lines 94-97: no room for a new connection,
\* the call fails without suspending; act is the active set at that point
MaximumReached(t, act) ==
    /\ active' = act
    /\ counters' = Increment(counters, "connection_errors", 1)
    /\ result' = [result EXCEPT ![t] =
                     GetError("Maximum connections reached", timed_out'[t])]
    /\ dequeued' = [dequeued EXCEPT ![t] = NoConn]
    /\ pc' = [pc EXCEPT ![t] = "idle"]
    /\ LockExit

\* lines 85-86: room for a new connection, the caller suspends in
\* `await asyncio.to_thread(self._create_connection)` with the lock held
AwaitCreate(t, act) ==
    /\ active' = act
    /\ pc' = [pc EXCEPT ![t] = "create"]
    /\ UNCHANGED <<counters, result, dequeued, lock, lockq>>

\* lines 76-80 and 84-86, when the caller resumes with the dequeued
\* connection: a valid one is handed out and the call returns; an invalid one
\* goes through _close_connection and the call falls through to the creation
GetProbe(t) ==
    /\ pc[t] = "probe"
    /\ LET c == dequeued[t] IN
       IF HandOut(c)
       THEN /\ counters' = Increment(counters, "connection_success", 1)
            /\ held' = [held EXCEPT ![t] = @ \cup {c}]
            /\ result' = [result EXCEPT ![t] = GetOk(c, FALSE, "queue")]
            /\ dequeued' = [dequeued EXCEPT ![t] = NoConn]
            /\ pc' = [pc EXCEPT ![t] = "idle"]
            /\ LockExit
            /\ UNCHANGED <<active, closed, discarded, timed_out>>
       ELSE /\ closed' = closed \cup {c}
            /\ discarded' = discarded \cup {c}
            /\ timed_out' = timed_out
            /\ held' = held
            /\ IF UnderLimit(active \ {c})
               THEN AwaitCreate(t, active \ {c})
               ELSE MaximumReached(t, active \ {c})
    /\ UNCHANGED <<max_connections, timeout, queue, broken, nextId, poolMetrics,
                   arg, calls>>

\* lines 81-86: wait_for raises TimeoutError and nothing is dequeued (the
\* task held the lock during the whole wait); the timeout is counted, then
\* the call either suspends in the creation or fails at once
GetTimeout(t) ==
    /\ pc[t] = "get" /\ lock = t
    /\ WaitForTimesOut(queue)
    /\ poolMetrics' = [poolMetrics EXCEPT !.timeouts = @ + 1]
    /\ timed_out' = [timed_out EXCEPT ![t] = TRUE]
    /\ IF UnderLimit(active)
       THEN AwaitCreate(t, active)
       ELSE MaximumReached(t, active)
    /\ UNCHANGED <<max_connections, timeout, queue, closed, broken, nextId, arg,
                   held, discarded, calls>>

\* lines 86-90 and the wrapper of lines 94-97: the thread running
\* _create_connection is done; createOk tells whether sqlite3.connect
\* succeeded
GetCreate(t, createOk) ==
    /\ pc[t] = "create"
    /\ IF createOk
       THEN /\ nextId < MaxCreated
            /\ nextId' = nextId + 1
            /\ active' = active \cup {nextId + 1}
            /\ poolMetrics' = [poolMetrics EXCEPT !.total_connections = @ + 1]
            /\ counters' = Increment(counters, "connection_success", 1)
            /\ held' = [held EXCEPT ![t] = @ \cup {nextId + 1}]
            /\ result' = [result EXCEPT ![t] =
                             GetOk(nextId + 1, timed_out[t], "created")]
       ELSE /\ nextId' = nextId
            /\ active' = ActiveAfterFailedCreate(active, nextId + 1)
            /\ poolMetrics' = poolMetrics
            /\ counters' = Increment(counters, "connection_errors", 1)
            /\ held' = held
            /\ result' = [result EXCEPT ![t] =
                             GetError("Failed to create connection", timed_out[t])]
    /\ dequeued' = [dequeued EXCEPT ![t] = NoConn]
    /\ timed_out' = timed_out
    /\ pc' = [pc EXCEPT ![t] = "idle"]
    /\ LockExit
    /\ UNCHANGED <<max_connections, timeout, queue, closed, broken, arg,
                   discarded, calls>>

(* ---------------------------- return_connection ------------------------ *)
\* asyncio.Queue(maxsize).put suspends while the queue is full
QueueFull(q) == Len(q) >= max_connections

\* the idle queue after `await self._connection_queue.put(conn)`
QueueAfterPut(q, c) == Append(q, c)

StartReturn(t, c) ==
    /\ pc[t] = "idle"
    /\ pc' = [pc EXCEPT ![t] = "ret"]
    /\ arg' = [arg EXCEPT ![t] = c]
    /\ calls' = calls + 1
    /\ LockEnter(t)
    /\ UNCHANGED <<max_connections, timeout, dequeued, timed_out, active, queue, closed, broken, nextId,
                   poolMetrics, counters, held, result, discarded>>

\* a caller gives back a connection it holds
ReturnHeld(t) == \E c \in held[t] : StartReturn(t, c)

\* connections owned by some caller
CheckedOut == UNION {held[t] : t \in Tasks}

\* a caller passes a handle that no caller holds any more (a second release,
\* or a handle kept after the connection was given back or discarded)
ReturnStale(t) == \E c \in (1..nextId) \ CheckedOut : StartReturn(t, c)

\* line 102: `if conn in self._active_connections`
AnyHandle(c) == TRUE

InActiveSet(c) == c \in active

\* lines 101-108; when the queue is full put() never returns (QueueFull is
\* raised by put_nowait only), the task stays suspended holding the lock
ReturnRun(t) ==
    /\ pc[t] = "ret" /\ lock = t
    /\ IF InActiveSet(arg[t])
       THEN /\ ~QueueFull(queue)
            /\ queue' = QueueAfterPut(queue, arg[t])
            /\ counters' = Increment(counters, "connection_return_success", 1)
       ELSE UNCHANGED <<queue, counters>>
    /\ held' = [held EXCEPT ![t] = @ \ {arg[t]}]
    /\ arg' = [arg EXCEPT ![t] = NoConn]
    /\ pc' = [pc EXCEPT ![t] = "idle"]
    /\ LockExit
    /\ UNCHANGED <<max_connections, timeout, dequeued, timed_out, active, closed, broken, nextId,
                   poolMetrics, result, discarded, calls>>

(* ---------------------------- validate_connections --------------------- *)
\* line 156: number of iterations of `while len(active) < max_connections`
\* when every creation succeeds
RefillCount(act) ==
    IF Cardinality(act) < max_connections
    THEN max_connections - Cardinality(act) ELSE 0

\* the idle queue after validate_connections made act the active set: the
\* method never touches the queue (lines 146-164)
QueueAfterValidateAllIdle(q, act) ==
    SelectSeq([i \in 1..nextId + max_connections |-> i], LAMBDA c : c \in act)

QueueAfterValidate(q, act) == q

StartValidate(t) ==
    /\ pc[t] = "idle"
    /\ pc' = [pc EXCEPT ![t] = "val"]
    /\ calls' = calls + 1
    /\ LockEnter(t)
    /\ UNCHANGED <<max_connections, timeout, dequeued, timed_out, active, queue, closed, broken, nextId,
                   poolMetrics, counters, arg, held, result, discarded>>

\* lines 146-164: every active connection is probed, the failing ones go
\* through _close_connection, then connections are created until the active
\* set is full or _create_connection raises (k creations succeed).  The new
\* connections are added to the active set only; the idle queue is not
\* touched.  A created connection that fails its probe is dropped and the
\* loop tries again, which leaves the pool state as it was.
ValidateRun(t) ==
    /\ pc[t] = "val" /\ lock = t
    /\ LET invalid == {c \in active : ~ValidateConnectionSync(c)}
           act1 == active \ invalid
       IN /\ closed' = closed \cup invalid
          /\ discarded' = discarded \cup invalid
          /\ \E k \in 0..RefillCount(act1) :
                /\ nextId + k <= MaxCreated
                /\ nextId' = nextId + k
                /\ active' = act1 \cup ((nextId + 1)..(nextId + k))
                /\ queue' = QueueAfterValidate(queue, act1 \cup ((nextId + 1)..(nextId + k)))
                /\ poolMetrics' = [poolMetrics EXCEPT
                                     !.connection_errors = @ + Cardinality(invalid),
                                     !.total_connections = @ + k]
    /\ pc' = [pc EXCEPT ![t] = "idle"]
    /\ LockExit
    /\ UNCHANGED <<max_connections, timeout, dequeued, timed_out, broken, counters, arg, held, result, calls>>

(* ---------------------------- close_all -------------------------------- *)
StartCloseAll(t) ==
    /\ pc[t] = "idle"
    /\ pc' = [pc EXCEPT ![t] = "close"]
    /\ calls' = calls + 1
    /\ LockEnter(t)
    /\ UNCHANGED <<max_connections, timeout, dequeued, timed_out, active, queue, closed, broken, nextId,
                   poolMetrics, counters, arg, held, result, discarded>>

\* lines 121-134.  With a non-empty queue, line 124 awaits the connection
\* returned by get_nowait(): one entry has left the queue and TypeError
\* leaves close_all (it is not QueueEmpty), nothing is closed.  With an empty
\* queue every active connection is closed and the active set cleared.
CloseAllRun(t) ==
    /\ pc[t] = "close" /\ lock = t
    /\ IF queue # <<>>
       THEN /\ queue' = Tail(queue)
            /\ result' = [result EXCEPT ![t] =
                   [op |-> "close_all", kind |-> "TypeError", conn |-> NoConn,
                    msg |-> "object can't be used in 'await' expression",
                    timedOut |-> FALSE, source |-> ""]]
            /\ UNCHANGED <<active, closed>>
       ELSE /\ closed' = closed \cup active
            /\ active' = {}
            /\ result' = [result EXCEPT ![t] =
                   [op |-> "close_all", kind |-> "ok", conn |-> NoConn, msg |-> "",
                    timedOut |-> FALSE, source |-> ""]]
            /\ UNCHANGED queue
    /\ pc' = [pc EXCEPT ![t] = "idle"]
    /\ LockExit
    /\ UNCHANGED <<max_connections, timeout, dequeued, timed_out, broken, nextId, poolMetrics, counters,
                   arg, held, discarded, calls>>

(* ---------------------------- environment ------------------------------ *)
\* the store stops answering on a connection: from now on its probe raises
Break(c) ==
    /\ c \in 1..nextId
    /\ c \notin broken /\ c \notin closed
    /\ Cardinality(broken) < MaxBroken
    /\ broken' = broken \cup {c}
    /\ UNCHANGED <<max_connections, timeout, dequeued, timed_out, active, queue, lock, lockq, closed, nextId,
                   poolMetrics, counters, pc, arg, held, result, discarded, calls>>

(* ---------------------------- RequestBatcher --------------------------- *)
\* Flush tasks are numbered in creation order; fpc[f] is one of
\*   "sleep"      suspended in asyncio.sleep(batch_window), line 58
\*   "locked"     inside `async with self.lock`, lines 60-66
\*   "exec"       awaiting the physical operation of its batch, line 70
\*   "done", "cancelled"
\* The critical sections contain no await, so add_request runs its section
\* in one step; the flush task's section is entered and left in two steps.
\* Requests are numbered in submission order.  fut[r] is the future of
\* request r: state "pending", "result", "error" or "cancelled", the value
\* it was set to (a result, or the exception of a flush) and the number of
\* times set_result / set_exception was called on it.
\* Times are counted in tenths of a second.

NoValue == 0

NewFuture == [state |-> "pending", value |-> NoValue, sets |-> 0]

\* the time at which the sleep of a flush task started at time t ends
\* (line 58: the task starts with asyncio.sleep(self.batch_window))
SleepUntilNow(t) == t

SleepUntil(t) == t + batch_window

\* asyncio.create_task(self._process_batch()), after cancelling the
\* scheduled task when there is one (lines 49-51 and 53)
Schedule(cancelOld) ==
    /\ fpc' = Append(IF cancelOld /\ batch_task # NoTask /\ fpc[batch_task] = "sleep"
                     THEN [fpc EXCEPT ![batch_task] = "cancelled"]
                     ELSE fpc,
                     "sleep")
    /\ fbatch' = Append(fbatch, <<>>)
    /\ fcreated' = Append(fcreated, now)
    /\ batch_task' = Len(fpc) + 1

\* add_request, lines 42-55: the request is appended under the lock and a
\* flush task is created when the list reached batch_size or none is set
AddRequest ==
    /\ Len(fut) < MaxRequests
    /\ block = NoTask
    /\ fut' = Append(fut, NewFuture)
    /\ appended' = Append(appended, now)
    /\ pending' = Append(pending, Len(fut) + 1)
    /\ IF Len(pending) + 1 >= batch_size
       THEN Schedule(TRUE)
       ELSE IF batch_task = NoTask
            THEN Schedule(FALSE)
            ELSE UNCHANGED <<fpc, fbatch, fcreated, batch_task>>
    /\ UNCHANGED <<batch_size, batch_window, block, now, ops>>

\* the caller of add_request is cancelled while it awaits its future
\* (line 55): the future is cancelled, nothing else is touched
CancelCaller(r) ==
    /\ fut[r].state = "pending"
    /\ fut' = [fut EXCEPT ![r].state = "cancelled"]
    /\ UNCHANGED <<batch_size, batch_window, pending, block, batch_task, fpc,
                   fbatch, now, fcreated, appended, ops>>

\* a tenth of a second passes.  A timer that is due fires before the clock
\* moves on, and no time passes inside a critical section (it has no await).
Tick ==
    /\ now < MaxTime
    /\ block = NoTask
    /\ \A f \in DOMAIN fpc : fpc[f] = "sleep" => now < SleepUntil(fcreated[f])
    /\ now' = now + 1
    /\ UNCHANGED <<batch_size, batch_window, pending, block, batch_task, fpc,
                   fbatch, fut, fcreated, appended, ops>>

\* _process_batch, lines 58-60: the sleep is over, the task takes the lock
FlushWake(f) ==
    /\ fpc[f] = "sleep"
    /\ now >= SleepUntil(fcreated[f])
    /\ block = NoTask
    /\ block' = f
    /\ fpc' = [fpc EXCEPT ![f] = "locked"]
    /\ UNCHANGED <<batch_size, batch_window, pending, batch_task, fbatch, fut,
                   now, fcreated, appended, ops>>

\* the first batch_size entries of the pending list (line 64)
TakeWholeList(p) == p

TakeBatch(p) == SubSeq(p, 1, IF Len(p) < batch_size THEN Len(p) ELSE batch_size)

\* the entries left pending (line 65)
LeaveWholeList(p) == p

LeaveBatch(p) == SubSeq(p, batch_size + 1, Len(p))

\* _process_batch, lines 60-70: the batch is taken under the lock and, the
\* lock released, passed to the physical operation
FlushTake(f) ==
    /\ fpc[f] = "locked"
    /\ block' = NoTask
    /\ IF pending = <<>>
       THEN /\ fpc' = [fpc EXCEPT ![f] = "done"]
            /\ UNCHANGED <<pending, batch_task, fbatch, ops>>
       ELSE /\ fbatch' = [fbatch EXCEPT ![f] = TakeBatch(pending)]
            /\ pending' = LeaveBatch(pending)
            /\ batch_task' = NoTask
            /\ ops' = Append(ops, TakeBatch(pending))
            /\ fpc' = [fpc EXCEPT ![f] = "exec"]
    /\ UNCHANGED <<batch_size, batch_window, fut, now, fcreated, appended>>

\* self._execute_batch(requests), the physical operation of a batch.  No
\* class under src/ defines it: it is the operation of section 4.3 of the
\* specification, which fails or returns the sequence of results of the
\* requests, in the order of the requests.  The result of request r is
\* written r.  A sequence shorter or longer than the batch is also
\* considered; "raised" covers the AttributeError that the missing method
\* gives on a plain RequestBatcher.
ExecuteBatchOutcomes(batch) ==
    {[raised |-> TRUE, results |-> <<>>]}
        \cup {[raised |-> FALSE, results |-> SubSeq(batch, 1, n)] : n \in 0..Len(batch)}
        \cup {[raised |-> FALSE, results |-> Append(batch, NoValue)]}

\* the smaller of two lengths
Min(a, b) == IF a < b THEN a ELSE b

\* lines 73-75: `for (_, future), result in zip(batch, results)`, each
\* future that is not done is set to the result paired with it
ResolveAll(fu, batch, results) ==
    [r \in DOMAIN fu |->
        IF \E i \in 1..Min(Len(batch), Len(results)) :
              batch[i] = r /\ fu[r].state = "pending"
        THEN [state |-> "result",
              value |-> results[CHOOSE i \in 1..Min(Len(batch), Len(results)) : batch[i] = r],
              sets |-> fu[r].sets + 1]
        ELSE fu[r]]

\* lines 78-81: every future of the batch that is not done is set to the
\* exception e
RejectFirst(fu, batch, e) ==
    [r \in DOMAIN fu |->
        IF batch # <<>> /\ batch[1] = r /\ fu[r].state = "pending"
        THEN [state |-> "error", value |-> e, sets |-> fu[r].sets + 1]
        ELSE fu[r]]

RejectAll(fu, batch, e) ==
    [r \in DOMAIN fu |->
        IF (\E i \in DOMAIN batch : batch[i] = r) /\ fu[r].state = "pending"
        THEN [state |-> "error", value |-> e, sets |-> fu[r].sets + 1]
        ELSE fu[r]]

\* the exception raised by the physical operation of flush task f
BatchError(f) == 100 + f

\* _process_batch, lines 68-81: the physical operation has returned or
\* raised (out) and the futures of the batch are set
FlushExec(f, out) ==
    /\ fpc[f] = "exec"
    /\ fut' = IF out.raised
              THEN RejectAll(fut, fbatch[f], BatchError(f))
              ELSE ResolveAll(fut, fbatch[f], out.results)
    /\ fpc' = [fpc EXCEPT ![f] = "done"]
    /\ UNCHANGED <<batch_size, batch_window, pending, block, batch_task, fbatch,
                   now, fcreated, appended, ops>>

BatcherNext ==
    \/ AddRequest /\ UNCHANGED <<poolVars, ctx, retryVars, metricVars, cacheVars>>
    \/ \E r \in DOMAIN fut : CancelCaller(r) /\ UNCHANGED <<poolVars, ctx, retryVars, metricVars, cacheVars>>
    \/ Tick /\ UNCHANGED <<poolVars, ctx, retryVars, metricVars, cacheVars>>
    \/ \E f \in DOMAIN fpc : FlushWake(f) /\ UNCHANGED <<poolVars, ctx, retryVars, metricVars, cacheVars>>
    \/ \E f \in DOMAIN fpc : FlushTake(f) /\ UNCHANGED <<poolVars, ctx, retryVars, metricVars, cacheVars>>
    \/ \E f \in DOMAIN fpc : \E out \in ExecuteBatchOutcomes(fbatch[f]) :
          FlushExec(f, out) /\ UNCHANGED <<poolVars, ctx, retryVars, metricVars, cacheVars>>

BatcherInit ==
    /\ PoolConstructed(DefaultMaxConnections, 1..NumTasks)
    /\ \E bs \in 1..MaxBatchSize : \E bw \in 1..MaxBatchWindow : BatcherBuilt(bs, bw)
    /\ RetryConstructed("RepositoryManager", DefaultRetry)
    /\ MetricsConstructed
    /\ CachesConstructed(DefaultCacheDuration)

BatcherSpec == BatcherInit /\ [][BatcherNext]_vars

(* ---------------------------- retry wrappers --------------------------- *)
\* One request made through a retry wrapper.  The wrapped operation is
\* `getattr(self.client, method)(...)` followed by response.raise_for_status();
\* each invocation ends in one of
\*   "ok"               a response with a success status
\*   "ConnectError"     a network failure, an httpx.HTTPError
\*   "HTTPStatusError"  raise_for_status() on a 4xx/5xx status (422 for a
\*                      rejected payload); httpx.HTTPStatusError is a
\*                      subclass of httpx.HTTPError
\*   "TypeError"        an exception that is not an httpx.HTTPError
OperationOutcomes == {"ok", "ConnectError", "HTTPStatusError", "TypeError"}

\* `except httpx.HTTPError as e` catches the failure
IsHTTPError(o) == o \in {"ConnectError", "HTTPStatusError"}

RECURSIVE Pow(_, _)
\* b ** e
Pow(b, e) == IF e = 0 THEN 1 ELSE b * Pow(b, e - 1)

\* the next value of the loop counter (`for attempt in range(...)`,
\* `retry_count += 1`)
AdvanceStuck(a) == a

Advance(a) == a + 1

\* the loop condition: `attempt in range(self.max_retries)`,
\* `retry_count < settings.retry.max_retries`
InLoop(a) == a < retry.max_retries

\* base.py line 24
HttpLastAttempt(a) == a = retry.max_retries - 1

\* base.py line 26: self.retry_delay * (2 ** attempt)
HttpDelay(a) == retry.retry_delay * Pow(retry.retry_backoff, a)

\* repository.py line 59, after `retry_count += 1`
RepoExhausted(c) == c = retry.max_retries

\* repository.py line 61, after `retry_count += 1`:
\* settings.retry.retry_delay * (settings.retry.retry_backoff ** retry_count)
RepoDelay(c) == retry.retry_delay * Pow(retry.retry_backoff, c)

\* the wrapper returned the response of the operation
Returned == [kind |-> "response", cause |-> "", attempts |-> 0]

\* the loop ended without a return statement: the coroutine returns None
ReturnedNone == [kind |-> "None", cause |-> "", attempts |-> 0]

\* an exception of class k left the wrapper; its message names c as the
\* failure and n as a number of attempts ("" and 0 when it names none)
Raised(k, c, n) == [kind |-> k, cause |-> c, attempts |-> n]

\* the wrapper is called and evaluates its loop condition for the first time
RequestStart ==
    /\ rpc = "idle"
    /\ attempt' = 0
    /\ IF InLoop(0)
       THEN rpc' = "call" /\ completion' = completion
       ELSE rpc' = "returned" /\ completion' = ReturnedNone
    /\ UNCHANGED <<wrapper, retry, invoked, waits, last_error>>

\* AsyncHTTPClient._request_with_retry, lines 19-26: one pass of the loop
\* body.  base.py does not import APIError, so `raise APIError(...)` on the
\* last attempt raises NameError("name 'APIError' is not defined").
HttpAttempt(o) ==
    /\ wrapper = "AsyncHTTPClient"
    /\ rpc = "call"
    /\ invoked <= MaxAttempts
    /\ invoked' = invoked + 1
    /\ IF o = "ok"
       THEN /\ rpc' = "returned"
            /\ completion' = Returned
            /\ UNCHANGED <<waits, last_error>>
       ELSE IF IsHTTPError(o)
       THEN /\ last_error' = o
            /\ IF HttpLastAttempt(attempt)
               THEN /\ rpc' = "raised"
                    /\ completion' = Raised("NameError", "", 0)
                    /\ waits' = waits
               ELSE /\ rpc' = "sleep"
                    /\ waits' = Append(waits, HttpDelay(attempt))
                    /\ completion' = completion
       ELSE /\ last_error' = o
            /\ rpc' = "raised"
            /\ completion' = Raised(o, o, 0)
            /\ waits' = waits
    /\ UNCHANGED <<wrapper, retry, attempt>>

\* the sleep of line 26 is over: the for loop takes its next value
HttpWake ==
    /\ wrapper = "AsyncHTTPClient"
    /\ rpc = "sleep"
    /\ attempt' = Advance(attempt)
    /\ IF InLoop(Advance(attempt))
       THEN rpc' = "call" /\ completion' = completion
       ELSE rpc' = "returned" /\ completion' = ReturnedNone
    /\ UNCHANGED <<wrapper, retry, invoked, waits, last_error>>

\* RepositoryManager._make_request_with_retry, lines 53-61: one pass of the
\* loop body; APIError carries "HTTP error after {retry_count} retries: {e}"
RepoAttempt(o) ==
    /\ wrapper = "RepositoryManager"
    /\ rpc = "call"
    /\ invoked <= MaxAttempts
    /\ invoked' = invoked + 1
    /\ IF o = "ok"
       THEN /\ rpc' = "returned"
            /\ completion' = Returned
            /\ UNCHANGED <<waits, last_error, attempt>>
       ELSE IF IsHTTPError(o)
       THEN /\ last_error' = o
            /\ attempt' = Advance(attempt)
            /\ IF RepoExhausted(Advance(attempt))
               THEN /\ rpc' = "raised"
                    /\ completion' = Raised("APIError", o, Advance(attempt))
                    /\ waits' = waits
               ELSE /\ rpc' = "sleep"
                    /\ waits' = Append(waits, RepoDelay(Advance(attempt)))
                    /\ completion' = completion
       ELSE /\ last_error' = o
            /\ rpc' = "raised"
            /\ completion' = Raised(o, o, 0)
            /\ UNCHANGED <<waits, attempt>>
    /\ UNCHANGED <<wrapper, retry>>

\* the sleep of line 61 is over: the while condition is evaluated again
RepoWake ==
    /\ wrapper = "RepositoryManager"
    /\ rpc = "sleep"
    /\ IF InLoop(attempt)
       THEN rpc' = "call" /\ completion' = completion
       ELSE rpc' = "returned" /\ completion' = ReturnedNone
    /\ UNCHANGED <<wrapper, retry, attempt, invoked, waits, last_error>>

RetryNext ==
    \/ RequestStart /\ UNCHANGED <<poolVars, ctx, batchVars, metricVars, cacheVars>>
    \/ \E o \in OperationOutcomes : HttpAttempt(o) /\ UNCHANGED <<poolVars, ctx, batchVars, metricVars, cacheVars>>
    \/ HttpWake /\ UNCHANGED <<poolVars, ctx, batchVars, metricVars, cacheVars>>
    \/ \E o \in OperationOutcomes : RepoAttempt(o) /\ UNCHANGED <<poolVars, ctx, batchVars, metricVars, cacheVars>>
    \/ RepoWake /\ UNCHANGED <<poolVars, ctx, batchVars, metricVars, cacheVars>>

RetryInit ==
    /\ PoolConstructed(DefaultMaxConnections, 1..NumTasks)
    /\ BatcherConstructed(DefaultBatchSize)
    /\ \E w \in {"AsyncHTTPClient", "RepositoryManager"} :
          \E cfg \in RetryConfigs(w) : RetryConstructed(w, cfg)
    /\ MetricsConstructed
    /\ CachesConstructed(DefaultCacheDuration)

RetrySpec == RetryInit /\ [][RetryNext]_vars

(***************************************************************************)
(* Metrics (src/modules/metrics.py)                                        *)
(***************************************************************************)

\* the calls made on one Metrics object are bounded
MaxMetricCalls == 4

\* the metric names, increments and durations (tenths of a second) passed
MetricNames == {"repository_add_attempts", "repository_add_duration"}
IncrementValues == {1, 2}
Durations == {1, 3}

\* Metrics.record_time: self.timers[metric].append(duration) on a
\* defaultdict(list)
RecordTime(tm, metric, duration) ==
    IF metric \in DOMAIN tm THEN [tm EXCEPT ![metric] = Append(@, duration)]
    ELSE tm @@ (metric :> <<duration>>)

\* Metrics.increment, lines 11-13. `async with self._lock` does not suspend
\* when the lock is free, and the body has no await: the lock is taken, the
\* counter is updated and the lock is released before any other task runs.
MetricsIncrement(metric, value) ==
    /\ Len(recorded) < MaxMetricCalls
    /\ metrics_lock = NoTask
    /\ metrics_counters' = Increment(metrics_counters, metric, value)
    /\ recorded' = Append(recorded, [op |-> "increment", metric |-> metric,
                                     value |-> value])
    /\ UNCHANGED <<timers, metrics_lock, snapshots>>

\* Metrics.record_time, lines 15-17, under the same lock
MetricsRecordTime(metric, duration) ==
    /\ Len(recorded) < MaxMetricCalls
    /\ metrics_lock = NoTask
    /\ timers' = RecordTime(timers, metric, duration)
    /\ recorded' = Append(recorded, [op |-> "record_time", metric |-> metric,
                                     value |-> duration])
    /\ UNCHANGED <<metrics_counters, metrics_lock, snapshots>>

\* the get_metrics calls made on one Metrics object are bounded
MaxSnapshots == 2

\* sum(v) of a list of samples
RECURSIVE SeqSum(_)
SeqSum(v) == IF v = <<>> THEN 0 ELSE Head(v) + SeqSum(Tail(v))

\* line 23: {"avg": sum(v)/len(v), "count": len(v)}; the quotient is kept as
\* the pair <<sum(v), len(v)>>
TimerStatsLast(v) == [avg |-> <<v[Len(v)], 1>>, count |-> 1]

TimerStats(v) == [avg |-> <<SeqSum(v), Len(v)>>, count |-> Len(v)]

\* lines 21-25: a new dict with a copy of the counters and, for every timer
\* whose list is not empty, its statistics
Snapshot(c, tm) ==
    [counters |-> c,
     timers |-> [k \in {n \in DOMAIN tm : tm[n] # <<>>} |-> TimerStats(tm[k])]]

\* Metrics.get_metrics, lines 19-25: a plain function, it takes no lock and
\* changes nothing in the object
GetMetricsAndReset ==
    /\ Len(snapshots) < MaxSnapshots
    /\ snapshots' = Append(snapshots, Snapshot(metrics_counters, timers))
    /\ metrics_counters' = <<>>
    /\ timers' = <<>>
    /\ UNCHANGED <<metrics_lock, recorded>>

GetMetrics ==
    /\ Len(snapshots) < MaxSnapshots
    /\ snapshots' = Append(snapshots, Snapshot(metrics_counters, timers))
    /\ UNCHANGED <<metrics_counters, timers, metrics_lock, recorded>>

MetricsNext ==
    \/ GetMetrics /\ UNCHANGED <<poolVars, ctx, batchVars, retryVars, cacheVars>>
    \/ \E m \in MetricNames : \E v \in IncrementValues :
          MetricsIncrement(m, v) /\ UNCHANGED <<poolVars, ctx, batchVars, retryVars, cacheVars>>
    \/ \E m \in MetricNames : \E d \in Durations :
          MetricsRecordTime(m, d) /\ UNCHANGED <<poolVars, ctx, batchVars, retryVars, cacheVars>>

MetricsInit ==
    /\ PoolConstructed(DefaultMaxConnections, 1..NumTasks)
    /\ BatcherConstructed(DefaultBatchSize)
    /\ RetryConstructed("RepositoryManager", DefaultRetry)
    /\ MetricsConstructed
    /\ CachesConstructed(DefaultCacheDuration)

MetricsSpec == MetricsInit /\ [][MetricsNext]_vars

(***************************************************************************)
(* SearchCache (src/modules/search.py) and RepositoryCache                 *)
(* (src/modules/repository.py)                                             *)
(***************************************************************************)

MaxCacheTime == 3        \* the clock of the caches stops here
MaxCacheDuration == 2    \* largest cache_duration a RepositoryCache is built with
MaxCacheSize == 2        \* largest max_size SearchCache is called with
MaxCacheCalls == 4       \* cache method calls made in a run

DatasetIds == {1, 2}
CacheData == {1, 2}
SearchKeys == {1, 2}

\* SearchCache.__init__, search.py lines 18-22.  Lines 19-21 set cache,
\* max_size and ttl; line 22 evaluates `asyncio.Lock()`.  search.py does not
\* import asyncio: unless the name is bound in the module's namespace from
\* outside (asyncioBound), the constructor leaves with NameError and the
\* caller gets no object.  cache is the dictionary in insertion order.
SearchCacheInit(ms, ttl, asyncioBound) ==
    /\ ~search_cache.called
    /\ search_cache' = [called |-> TRUE, max_size |-> ms, ttl |-> ttl,
                        error |-> IF asyncioBound THEN "" ELSE "NameError",
                        cache |-> <<>>]
    /\ UNCHANGED <<cache_calls, search_call, repo_cache, cache_duration, cache_now, cache_got>>

\* a SearchCache object exists
SearchCacheBuilt == search_cache.called /\ search_cache.error = ""

\* the keys of a dictionary c, and the position of key k in it (0 if absent)
Keys(c) == {c[i].key : i \in 1..Len(c)}

Position(c, k) ==
    IF k \in Keys(c) THEN CHOOSE i \in 1..Len(c) : c[i].key = k ELSE 0

\* c without its i-th entry (`del self.cache[...]`)
Deleted(c, i) == SubSeq(c, 1, i - 1) \o SubSeq(c, i + 1, Len(c))

\* line 36, min(self.cache.items(), key=timestamp): the first entry, in
\* insertion order, with the least timestamp
NewestEntry(c) ==
    CHOOSE i \in 1..Len(c) :
        /\ \A j \in 1..Len(c) : c[j].timestamp <= c[i].timestamp
        /\ \A j \in 1..(i - 1) : c[j].timestamp < c[i].timestamp

OldestEntry(c) ==
    CHOOSE i \in 1..Len(c) :
        /\ \A j \in 1..Len(c) : c[i].timestamp <= c[j].timestamp
        /\ \A j \in 1..(i - 1) : c[j].timestamp > c[i].timestamp

\* lines 38-41, self.cache[key] = {...}: an existing key keeps its place
Stored(c, k, value, ts) ==
    LET e == [key |-> k, data |-> value, timestamp |-> ts] IN
    IF k \in Keys(c) THEN [c EXCEPT ![Position(c, k)] = e] ELSE Append(c, e)

\* SearchCache.set, search.py lines 33-41: a full cache loses its oldest
\* entry before the value is stored; min() of an empty dictionary
\* (max_size = 0) raises ValueError
SearchCacheSet(k, value) ==
    /\ SearchCacheBuilt
    /\ LET c == search_cache.cache
           full == Len(c) >= search_cache.max_size
       IN IF full /\ c = <<>>
          THEN /\ search_call' = [NoCall EXCEPT !.op = "set", !.key = k,
                                                !.error = "ValueError"]
               /\ search_cache' = search_cache
          ELSE /\ search_call' =
                     [NoCall EXCEPT !.op = "set", !.key = k, !.evicted = full,
                                    !.evicted_ts = IF full
                                                   THEN c[OldestEntry(c)].timestamp
                                                   ELSE 0]
               /\ search_cache' =
                     [search_cache EXCEPT !.cache =
                         Stored(IF full THEN Deleted(c, OldestEntry(c)) ELSE c,
                                k, value, cache_now)]
    /\ cache_calls' = cache_calls + 1
    /\ UNCHANGED <<repo_cache, cache_duration, cache_now, cache_got>>

\* SearchCache.get, search.py lines 24-31: an entry younger than ttl is
\* returned, an older one is deleted and None is returned
SearchCacheGet(k) ==
    /\ SearchCacheBuilt
    /\ LET c == search_cache.cache IN
       IF k \in Keys(c)
       THEN LET e == c[Position(c, k)]
                age == cache_now - e.timestamp
            IN IF age < search_cache.ttl
               THEN /\ search_call' = [NoCall EXCEPT !.op = "get", !.key = k,
                                          !.hit = TRUE, !.age = age,
                                          !.found = TRUE, !.data = e.data]
                    /\ search_cache' = search_cache
               ELSE /\ search_call' = [NoCall EXCEPT !.op = "get", !.key = k,
                                          !.hit = TRUE, !.age = age]
                    /\ search_cache' = [search_cache EXCEPT !.cache =
                                           Deleted(c, Position(c, k))]
       ELSE /\ search_call' = [NoCall EXCEPT !.op = "get", !.key = k]
            /\ search_cache' = search_cache
    /\ cache_calls' = cache_calls + 1
    /\ UNCHANGED <<repo_cache, cache_duration, cache_now, cache_got>>

\* line 48: an entry is expired for cleanup when its age exceeds ttl
Expired(e) == cache_now - e.timestamp > search_cache.ttl

NotExpired(e) == ~Expired(e)

\* SearchCache.cleanup, search.py lines 43-50
SearchCacheCleanup ==
    /\ SearchCacheBuilt
    /\ search_call' = [NoCall EXCEPT !.op = "cleanup"]
    /\ search_cache' = [search_cache EXCEPT !.cache = SelectSeq(@, NotExpired)]
    /\ cache_calls' = cache_calls + 1
    /\ UNCHANGED <<repo_cache, cache_duration, cache_now, cache_got>>

\* RepositoryCache.set, repository.py lines 497-502
RepoCacheSet(id, data) ==
    /\ repo_cache' = (id :> [data |-> data, timestamp |-> cache_now]) @@ repo_cache
    /\ cache_calls' = cache_calls + 1
    /\ UNCHANGED <<search_cache, search_call, cache_duration, cache_now, cache_got>>

\* a cache without the entry of id (`del self._cache[id]`, `pop(id, None)`)
Without(c, id) == [k \in DOMAIN c \ {id} |-> c[k]]

\* RepositoryCache.get, repository.py lines 488-495: an entry younger than
\* cache_duration is returned, an older one is deleted and None is returned
RepoCacheGet(id) ==
    /\ IF id \in DOMAIN repo_cache
       THEN LET age == cache_now - repo_cache[id].timestamp IN
            IF age < cache_duration
            THEN /\ cache_got' = [called |-> TRUE, id |-> id, found |-> TRUE,
                                  age |-> age, data |-> repo_cache[id].data]
                 /\ repo_cache' = repo_cache
            ELSE /\ cache_got' = [called |-> TRUE, id |-> id, found |-> FALSE,
                                  age |-> age, data |-> NoValue]
                 /\ repo_cache' = Without(repo_cache, id)
       ELSE /\ cache_got' = [called |-> TRUE, id |-> id, found |-> FALSE,
                             age |-> 0, data |-> NoValue]
            /\ repo_cache' = repo_cache
    /\ cache_calls' = cache_calls + 1
    /\ UNCHANGED <<search_cache, search_call, cache_duration, cache_now>>

\* RepositoryCache.invalidate, repository.py lines 504-506
RepoCacheInvalidate(id) ==
    /\ repo_cache' = Without(repo_cache, id)
    /\ cache_calls' = cache_calls + 1
    /\ UNCHANGED <<search_cache, search_call, cache_duration, cache_now, cache_got>>

\* RepositoryCache.clear, repository.py lines 508-510
RepoCacheClear ==
    /\ repo_cache' = <<>>
    /\ cache_calls' = cache_calls + 1
    /\ UNCHANGED <<search_cache, search_call, cache_duration, cache_now, cache_got>>

\* a second passes
CacheTick ==
    /\ cache_now < MaxCacheTime
    /\ cache_now' = cache_now + 1
    /\ UNCHANGED <<cache_calls, search_cache, search_call, repo_cache, cache_duration, cache_got>>

\* the callers may make another cache call
CacheBudget == cache_calls < MaxCacheCalls

\* SearchCache and RepositoryCache are separate objects that share nothing
\* but the clock: a run makes its calls on one of them
RepoCacheOnly == ~search_cache.called
SearchCacheOnly == repo_cache = <<>> /\ cache_got = NoGet

CacheNext ==
    \/ \E ms \in 0..MaxCacheSize : \E ttl \in 1..MaxCacheDuration : \E ab \in BOOLEAN :
          SearchCacheOnly /\ SearchCacheInit(ms, ttl, ab) /\ UNCHANGED <<poolVars, ctx, batchVars, retryVars, metricVars>>
    \/ \E k \in SearchKeys : \E d \in CacheData :
          CacheBudget /\ SearchCacheSet(k, d) /\ UNCHANGED <<poolVars, ctx, batchVars, retryVars, metricVars>>
    \/ \E k \in SearchKeys :
          CacheBudget /\ SearchCacheGet(k) /\ UNCHANGED <<poolVars, ctx, batchVars, retryVars, metricVars>>
    \/ CacheBudget /\ SearchCacheCleanup /\ UNCHANGED <<poolVars, ctx, batchVars, retryVars, metricVars>>
    \/ \E id \in DatasetIds : \E d \in CacheData :
          CacheBudget /\ RepoCacheOnly /\ RepoCacheSet(id, d) /\ UNCHANGED <<poolVars, ctx, batchVars, retryVars, metricVars>>
    \/ \E id \in DatasetIds :
          CacheBudget /\ RepoCacheOnly /\ RepoCacheGet(id) /\ UNCHANGED <<poolVars, ctx, batchVars, retryVars, metricVars>>
    \/ \E id \in DatasetIds :
          CacheBudget /\ RepoCacheOnly /\ RepoCacheInvalidate(id) /\ UNCHANGED <<poolVars, ctx, batchVars, retryVars, metricVars>>
    \/ CacheBudget /\ RepoCacheOnly /\ RepoCacheClear /\ UNCHANGED <<poolVars, ctx, batchVars, retryVars, metricVars>>
    \/ CacheTick /\ UNCHANGED <<poolVars, ctx, batchVars, retryVars, metricVars>>

CacheInit ==
    /\ PoolConstructed(DefaultMaxConnections, 1..NumTasks)
    /\ BatcherConstructed(DefaultBatchSize)
    /\ RetryConstructed("RepositoryManager", DefaultRetry)
    /\ MetricsConstructed
    /\ \E d \in 1..MaxCacheDuration : CachesConstructed(d)

CacheSpec == CacheInit /\ [][CacheNext]_vars

(* ---------------------------- specifications --------------------------- *)
\* callers that respect the ownership discipline
DisciplinedNext ==
    \/ \E t \in Tasks : Budget /\ StartGet(t) /\ UNCHANGED <<ctx, batchVars, retryVars, metricVars, cacheVars>>
    \/ \E t \in Tasks : GetDequeue(t) /\ UNCHANGED <<ctx, batchVars, retryVars, metricVars, cacheVars>>
    \/ \E t \in Tasks : GetProbe(t) /\ UNCHANGED <<ctx, batchVars, retryVars, metricVars, cacheVars>>
    \/ \E t \in Tasks : GetTimeout(t) /\ UNCHANGED <<ctx, batchVars, retryVars, metricVars, cacheVars>>
    \/ \E t \in Tasks : \E ok \in BOOLEAN : GetCreate(t, ok) /\ UNCHANGED <<ctx, batchVars, retryVars, metricVars, cacheVars>>
    \/ \E t \in Tasks : Budget /\ ReturnHeld(t) /\ UNCHANGED <<ctx, batchVars, retryVars, metricVars, cacheVars>>
    \/ \E t \in Tasks : ReturnRun(t) /\ UNCHANGED <<ctx, batchVars, retryVars, metricVars, cacheVars>>
    \/ Budget /\ StartValidate(Application) /\ UNCHANGED <<ctx, batchVars, retryVars, metricVars, cacheVars>>
    \/ \E t \in Tasks : ValidateRun(t) /\ UNCHANGED <<ctx, batchVars, retryVars, metricVars, cacheVars>>
    \/ Budget /\ StartCloseAll(Application) /\ UNCHANGED <<ctx, batchVars, retryVars, metricVars, cacheVars>>
    \/ \E t \in Tasks : CloseAllRun(t) /\ UNCHANGED <<ctx, batchVars, retryVars, metricVars, cacheVars>>
    \/ \E c \in ConnIds : Break(c) /\ UNCHANGED <<ctx, batchVars, retryVars, metricVars, cacheVars>>

\* arbitrary callers: handles may also be released twice or when stale
Next ==
    \/ DisciplinedNext
    \/ \E t \in Tasks : Budget /\ ReturnStale(t) /\ UNCHANGED <<ctx, batchVars, retryVars, metricVars, cacheVars>>

Spec == Init /\ [][Next]_vars

DisciplinedSpec == Init /\ [][DisciplinedNext]_vars

(* ---------------------------- get_db_connection ------------------------ *)
\* connection.py lines 169-185, an @asynccontextmanager generator.  ctx[t]:
\*   phase       "none" | "get" (awaiting pool.get_connection) | "body" (the
\*               managed block runs, generator at its yield) |
\*               "finally" (awaiting pool.return_connection) | "exited"
\*   attempt     loop variable of `for attempt in range(max_retries)`
\*   conn        local variable conn
\*   yielded     the generator has yielded once
\*   got, ret    connections obtained from get_connection / passed to
\*               return_connection during this use
MaxRetries == 3          \* largest max_retries a context is entered with
MaxUses == 3             \* pool operations started before the last use is entered

\* a new use of get_db_connection may be entered (the retries and the
\* release of a use that was entered always run)
UseBudget == calls < MaxUses

\* the `finally` clause, lines 183-185, run with the generator's locals cx
CtxFinallyWith(t, cx) ==
    IF cx.conn # NoConn
    THEN /\ StartReturn(t, cx.conn)
         /\ ctx' = [ctx EXCEPT ![t] = [cx EXCEPT !.phase = "finally",
                                                 !.ret = @ \cup {cx.conn}]]
    ELSE /\ ctx' = [ctx EXCEPT ![t] = [cx EXCEPT !.phase = "exited"]]
         /\ UNCHANGED poolVars

CtxFinally(t) == CtxFinallyWith(t, ctx[t])

\* the `except Exception` clause, lines 179-182: re-raise on the last
\* attempt, otherwise sleep and start the next attempt
CtxExcept(t) ==
    IF ctx[t].attempt = ctx[t].max_retries - 1
    THEN CtxFinally(t)
    ELSE /\ StartGet(t)
         /\ ctx' = [ctx EXCEPT ![t].phase = "get", ![t].attempt = @ + 1]

\* `async with get_db_connection(max_retries)`: __aenter__ runs the generator
\* up to its first await of pool.get_connection()
CtxEnter(t, mr) ==
    /\ ctx[t].phase \in {"none", "exited"}
    /\ UseBudget
    /\ StartGet(t)
    /\ ctx' = [ctx EXCEPT ![t] = [NoCtx EXCEPT !.phase = "get", !.max_retries = mr]]

\* pool.get_connection() has returned or raised (line 176).  The first
\* `yield conn` (line 177) hands the connection to the managed block.  A
\* second yield answers the athrow() of __aexit__: __aexit__ closes the
\* generator on the spot (GeneratorExit at the yield, so the finally clause
\* runs pool.return_connection(conn) in the same callback) and raises
\* RuntimeError("generator didn't stop after athrow()")
CtxGot(t) ==
    /\ ctx[t].phase = "get" /\ pc[t] = "idle"
    /\ IF result[t].kind = "ok"
       THEN LET cx == [ctx[t] EXCEPT !.conn = result[t].conn,
                                     !.got = @ \cup {result[t].conn},
                                     !.yielded = TRUE]
            IN IF ctx[t].yielded
               THEN CtxFinallyWith(t, cx)
               ELSE /\ ctx' = [ctx EXCEPT ![t] = [cx EXCEPT !.phase = "body"]]
                    /\ UNCHANGED poolVars
       ELSE CtxExcept(t)

\* the managed block ends: normally, with an Exception, or with a
\* BaseException such as CancelledError
CtxBodyDone(t, outcome) ==
    /\ ctx[t].phase = "body" /\ pc[t] = "idle"
    /\ IF outcome = "exception" THEN CtxExcept(t) ELSE CtxFinally(t)

\* pool.return_connection() has returned (line 185)
CtxReturned(t) ==
    /\ ctx[t].phase = "finally" /\ pc[t] = "idle"
    /\ ctx' = [ctx EXCEPT ![t].phase = "exited"]
    /\ UNCHANGED poolVars

\* callers that use the pool through get_db_connection only
CtxNext ==
    \/ \E t \in Tasks : \E mr \in 1..MaxRetries : CtxEnter(t, mr) /\ UNCHANGED <<batchVars, retryVars, metricVars, cacheVars>>
    \/ \E t \in Tasks : CtxGot(t) /\ UNCHANGED <<batchVars, retryVars, metricVars, cacheVars>>
    \/ \E t \in Tasks : \E o \in {"normal", "exception", "cancelled"} : CtxBodyDone(t, o) /\ UNCHANGED <<batchVars, retryVars, metricVars, cacheVars>>
    \/ \E t \in Tasks : CtxReturned(t) /\ UNCHANGED <<batchVars, retryVars, metricVars, cacheVars>>
    \/ \E t \in Tasks : GetDequeue(t) /\ UNCHANGED <<ctx, batchVars, retryVars, metricVars, cacheVars>>
    \/ \E t \in Tasks : GetProbe(t) /\ UNCHANGED <<ctx, batchVars, retryVars, metricVars, cacheVars>>
    \/ \E t \in Tasks : GetTimeout(t) /\ UNCHANGED <<ctx, batchVars, retryVars, metricVars, cacheVars>>
    \/ \E t \in Tasks : \E ok \in BOOLEAN : GetCreate(t, ok) /\ UNCHANGED <<ctx, batchVars, retryVars, metricVars, cacheVars>>
    \/ \E t \in Tasks : ReturnRun(t) /\ UNCHANGED <<ctx, batchVars, retryVars, metricVars, cacheVars>>

\* get_db_connection uses the module's `pool = DatabasePool(path)`
\* (connection.py line 167), built with the default max_connections and the
\* default timeout
CtxInit ==
    /\ PoolConstructed(DefaultMaxConnections, 1..NumTasks)
    /\ BatcherConstructed(DefaultBatchSize)
    /\ RetryConstructed("RepositoryManager", DefaultRetry)
    /\ MetricsConstructed
    /\ CachesConstructed(DefaultCacheDuration)

CtxSpec == CtxInit /\ [][CtxNext]_vars

(* ---------------------------- scenario 1 ------------------------------- *)
\* max_connections = 2, an empty pool, a store that accepts connections and
\* three callers that each call get_connection once, all three before any of
\* the calls has returned; a caller may give its connection back afterwards
ScenarioTasks == {1, 2, 3}

ScenarioInit ==
    /\ PoolConstructed(2, ScenarioTasks)
    /\ BatcherConstructed(DefaultBatchSize)
    /\ RetryConstructed("RepositoryManager", DefaultRetry)
    /\ MetricsConstructed
    /\ CachesConstructed(DefaultCacheDuration)

\* every get_connection call made so far is still running
NoneReturned == \A u \in Tasks : result[u].kind = "none"

\* The three calls stand in the lock's FIFO order before any
\* return_connection, so the idle queue is empty whenever one of them runs:
\* the dequeue branch of get_connection is never taken in this scenario.
ScenarioNext ==
    \/ \E t \in Tasks : NoneReturned /\ StartGet(t) /\ UNCHANGED <<ctx, batchVars, retryVars, metricVars, cacheVars>>
    \/ \E t \in Tasks : GetTimeout(t) /\ UNCHANGED <<ctx, batchVars, retryVars, metricVars, cacheVars>>
    \/ \E t \in Tasks : GetCreate(t, TRUE) /\ UNCHANGED <<ctx, batchVars, retryVars, metricVars, cacheVars>>
    \/ \E t \in Tasks : ReturnHeld(t) /\ UNCHANGED <<ctx, batchVars, retryVars, metricVars, cacheVars>>
    \/ \E t \in Tasks : ReturnRun(t) /\ UNCHANGED <<ctx, batchVars, retryVars, metricVars, cacheVars>>

ScenarioSpec == ScenarioInit /\ [][ScenarioNext]_vars

(* ======================================================================= *)
(* Properties                                                              *)
(* ======================================================================= *)
\* the get_connection call of task t has just returned conn c in this step
JustGot(t, c) ==
    /\ result[t].kind = "none"
    /\ result'[t].op = "get_connection" /\ result'[t].kind = "ok"
    /\ result'[t].conn = c

GetFailed(t) ==
    result[t].op = "get_connection" /\ result[t].kind \notin {"none", "ok"}

\* C1: in every reachable state the active set holds at most max_connections
\* connections, whatever the interleaving of get_connection,
\* return_connection (also of stale handles), validate_connections and
\* close_all.
C1_ActiveWithinCapacity == Cardinality(active) <= max_connections

\* a full active set after which a get_connection was refused for capacity
C1_Witness ==
    /\ Cardinality(active) = max_connections
    /\ \E t \in Tasks : GetFailed(t) /\ result[t].msg = "Maximum connections reached"

\* C2: every active connection is either checked out or in the idle queue
\* and nothing else is in the idle queue, so
\* |checked out| + |idle queue| = |active set|, for disciplined callers and
\* any interleaving of get_connection, return_connection and
\* validate_connections.  A connection that a get_connection in progress has
\* taken from the queue and not yet probed counts as idle.
C2_ActivePartition ==
    LET inTransit == {t \in Tasks : pc[t] = "probe"}
        idle == {queue[i] : i \in 1..Len(queue)} \cup {dequeued[t] : t \in inTransit}
    IN /\ Cardinality(CheckedOut) + Len(queue) + Cardinality(inTransit)
             = Cardinality(active)
       /\ active = CheckedOut \cup idle

\* C3: when callers release only connections they hold, and at most once, no
\* connection is held by two callers at the same time.
C3_ExclusiveOwnership ==
    \A t, u \in Tasks : t # u => held[t] \cap held[u] = {}

\* a connection created for one caller and released by it is now held by
\* another caller, who got it from the idle queue
C3_Witness ==
    \E t, u \in Tasks :
        /\ t # u
        /\ result[u].kind = "ok" /\ result[u].source = "created"
        /\ result[t].kind = "ok" /\ result[t].source = "queue"
        /\ result[t].conn = result[u].conn
        /\ result[t].conn \in held[t]

\* C4: a second return_connection of a connection that is already idle is a
\* no-op: the idle queue never holds the same handle twice, and so no two
\* callers are handed the same handle.
C4_DoubleReleaseHarmless ==
    /\ \A i, j \in 1..Len(queue) : i # j => queue[i] # queue[j]
    /\ \A t, u \in Tasks : t # u => held[t] \cap held[u] = {}

\* C5: once a use of get_db_connection has exited, every connection it
\* obtained from pool.get_connection has been passed to
\* pool.return_connection.
C5_ScopedAcquisitionNeverLeaks ==
    \A t \in Tasks : ctx[t].phase = "exited" => ctx[t].got \subseteq ctx[t].ret

\* C6: a connection returned by get_connection has never been discarded
\* (closed and removed from the active set by validate_connections or by a
\* failed probe in get_connection), and its probe succeeds at the moment it
\* is handed out.
C6_DiscardedNeverReturned ==
    [][\A t \in Tasks : \A c \in ConnIds :
          JustGot(t, c) => /\ c \notin discarded'
                           /\ c \notin closed' /\ c \notin broken']_vars

\* validate_connections discarded a connection (the only place that counts
\* _metrics['connection_errors']) and later a get_connection dequeued a dead
\* handle, discarded it and returned a newly created connection instead
C6_Witness ==
    /\ discarded # {}
    /\ poolMetrics.connection_errors > 0
    /\ \E t \in Tasks : /\ result[t].kind = "ok" /\ result[t].source = "created"
                         /\ ~result[t].timedOut

\* C7: a get_connection that fails because the active set is at
\* max_connections and no idle connection arrived in time reports its reason
\* as PoolExhausted (or, for a pure wait timeout, AcquireTimeout), a kind of
\* its own that callers can tell from other failures such as a failed
\* connect.
C7_DistinctFailureKinds ==
    \A t \in Tasks :
        (GetFailed(t) /\ result[t].timedOut
                      /\ result[t].msg = "Maximum connections reached") =>
            /\ result[t].kind \in {"PoolExhausted", "AcquireTimeout"}
            /\ \A u \in Tasks :
                  (GetFailed(u) /\ result[u].msg = "Failed to create connection")
                      => result[u].kind # result[t].kind

\* C8: a get_connection call that fails after its wait timed out leaves the
\* active set and the idle queue as they were: from the moment the call
\* holds the pool lock, no step taken while its wait has timed out changes
\* them, unless the step hands the caller a connection.
C8_TimedOutGetLeavesPoolState ==
    [][\A t \in Tasks :
          (/\ lock = t /\ pc[t] \in {"get", "create"}
           /\ timed_out'[t] /\ result'[t].kind # "ok") =>
              (active' = active /\ queue' = queue)]_vars

\* a call failed after a timeout while the pool held connections
C8_Witness ==
    \E t \in Tasks : GetFailed(t) /\ result[t].timedOut /\ active # {}

\* a get_connection call of task t is suspended in wait_for(queue.get()):
\* it is past `async with self._lock`, the idle queue is empty and the
\* timeout leaves it waiting
WaitingForIdle(t) ==
    /\ pc[t] = "get"
    /\ \A i \in 1..Len(lockq) : lockq[i] # t
    /\ queue = <<>>
    /\ timeout > 0

\* C9: no task holds a lock while it is suspended waiting: a get_connection
\* call waiting for an idle connection does not hold DatabasePool._lock, and
\* a flush task sleeping for batch_window does not hold RequestBatcher.lock.
C9_NoLockHeldWhileSuspended ==
    /\ \A t \in Tasks : WaitingForIdle(t) => lock # t
    /\ \A f \in DOMAIN fpc : fpc[f] = "sleep" => block # f

\* the batcher half of C9 on its own
BatcherSleepsWithoutLock ==
    \A f \in DOMAIN fpc : fpc[f] = "sleep" => block # f

\* C10: max_connections = 2, empty pool, three concurrent get_connection
\* calls: once all three have returned, exactly two succeeded with a new
\* connection without waiting for the timeout, and the third either got a
\* released connection from the idle queue or failed with AcquireTimeout.
C10_ThreeCallersTwoSlots ==
    (\A t \in Tasks : result[t].kind # "none") =>
        LET fast == {t \in Tasks : /\ result[t].kind = "ok"
                                   /\ result[t].source = "created"
                                   /\ ~result[t].timedOut}
        IN /\ Cardinality(fast) = 2
           /\ \A t \in Tasks \ fast :
                 \/ result[t].kind = "ok" /\ result[t].source = "queue"
                 \/ result[t].kind = "AcquireTimeout"

\* the get_connection call of task t has just returned or raised in this step
JustCompletedGet(t) ==
    /\ result[t].kind = "none"
    /\ result'[t].op = "get_connection" /\ result'[t].kind # "none"

\* C11: a get_connection call returns at most T plus a scheduling slack
\* after it was called (T the pool timeout), however many other callers
\* wait.  Every GetTimeout step is a wait of T made with the lock held, and
\* _metrics['timeouts'] counts these waits.  In the scenario every call is
\* made before the first wait ends and no wait overlaps another, so the call
\* that completes at the end of the k-th wait has waited at least (k - 1) * T:
\* the bound T + slack allows k - 1 <= 1.
C11_BoundedAcquire ==
    [][\A t \in Tasks :
          JustCompletedGet(t) => poolMetrics'.timeouts - 1 <= 1]_vars

(* ---------------------------- scheduling ------------------------------- *)
\* the task holding the pool lock runs the body of its operation: the event
\* loop resumes a task whose await can complete
Run(t) ==
    /\ \/ GetDequeue(t)
       \/ GetProbe(t)
       \/ GetTimeout(t)
       \/ \E ok \in BOOLEAN : GetCreate(t, ok)
       \/ ReturnRun(t)
       \/ ValidateRun(t)
       \/ CloseAllRun(t)
    /\ UNCHANGED <<ctx, batchVars, retryVars, metricVars, cacheVars>>

LiveSpec == Spec /\ \A t \in 1..NumTasks : WF_vars(Run(t))

\* C12: a return_connection of an active connection that finds the idle
\* queue full completes: the connection ends up closed and out of the active
\* set, connection_return_errors has been counted and the caller no longer
\* holds the pool lock.
C12_ReturnOnFullQueueCompletes ==
    \A t \in 1..NumTasks : \A c \in ConnIds :
        (pc[t] = "ret" /\ lock = t /\ arg[t] = c /\ c \in active /\ QueueFull(queue))
            ~> (/\ pc[t] = "idle" /\ lock # t
                /\ c \in closed /\ c \notin active
                /\ Counter("connection_return_errors") > 0)

\* the close_all call of task t has just ended in this step
JustClosedAll(t) == pc[t] = "close" /\ pc'[t] = "idle"

\* the handles in the idle queue q
QueueEntries(q) == {q[i] : i \in 1..Len(q)}

\* C13: close_all, called in any reachable state, completes and leaves the
\* idle queue empty, the active set empty and every connection that was
\* idle or checked out closed.
C13_CloseAllClosesEverything ==
    [][\A t \in Tasks :
          JustClosedAll(t) =>
              /\ result'[t].kind = "ok"
              /\ queue' = <<>>
              /\ active' = {}
              /\ (active \cup QueueEntries(queue)) \subseteq closed']_vars

\* the validate_connections call of task t has just ended in this step
JustValidated(t) == pc[t] = "val" /\ pc'[t] = "idle"

\* C14: validate_connections closes and removes every active connection
\* whose probe fails, keeps the active set within max_connections, leaves
\* the connections whose probe succeeds as they were (checked out by the
\* same caller, or idle), and every replacement it creates can afterwards be
\* obtained through get_connection, that is, it is in the idle queue, the
\* only place get_connection takes existing connections from.
C14_ValidateReplaces ==
    [][\A t \in Tasks :
          JustValidated(t) =>
              LET invalid == {c \in active : ~ValidateConnectionSync(c)}
                  valid == active \ invalid
              IN /\ invalid \subseteq closed'
                 /\ invalid \cap active' = {}
                 /\ Cardinality(active') <= max_connections
                 /\ valid \subseteq active'
                 /\ \A u \in Tasks : held'[u] \cap valid = held[u] \cap valid
                 /\ QueueEntries(queue') \cap valid = QueueEntries(queue) \cap valid
                 /\ (active' \ active) \subseteq QueueEntries(queue')]_vars

\* C15: a retry wrapper configured with max_retries = N >= 1 invokes the
\* wrapped operation at most N times, and once an invocation has succeeded
\* it makes no further invocation and its result stays the returned one.
C15_AtMostNAttempts ==
    [][/\ retry.max_retries >= 1 => invoked' <= retry.max_retries
       /\ completion.kind = "response" =>
             (invoked' = invoked /\ completion' = completion /\ rpc' = "returned")]_vars

\* the operation failed on every attempt but the last one, which is the
\* N-th and succeeded: the wrapper returned its response
C15_Witness ==
    /\ retry.max_retries >= 2
    /\ invoked = retry.max_retries
    /\ last_error # ""
    /\ rpc = "returned" /\ completion.kind = "response"

\* C16: counting from 0, the i-th wait of a retry wrapper is
\* base_delay * backoff_multiplier^i whenever that is within the ceiling, so
\* the first wait equals base_delay; RepositoryManager with max_retries = 3,
\* retry_delay = 0.5, retry_backoff = 2.0, retry_max_delay = 10 and every
\* attempt failing waits 0.5 then 1.0, two waits in all.
C16_BackoffSchedule ==
    /\ \A i \in DOMAIN waits :
          retry.retry_delay * Pow(retry.retry_backoff, i - 1) <= retry.retry_max_delay
              => waits[i] = retry.retry_delay * Pow(retry.retry_backoff, i - 1)
    /\ (wrapper = "RepositoryManager" /\ retry = DefaultRetry /\ rpc = "raised"
            /\ invoked = DefaultMaxRetries)
          => waits = <<DefaultRetryDelay, 2 * DefaultRetryDelay>>

\* C17: no wait between two attempts of a retry wrapper exceeds
\* settings.retry.retry_max_delay; once base_delay * backoff_multiplier^i
\* has reached it, the waits equal it.
C17_BackoffCeiling ==
    \A i \in DOMAIN waits :
        /\ waits[i] <= retry.retry_max_delay
        /\ retry.retry_delay * Pow(retry.retry_backoff, i - 1) >= retry.retry_max_delay
              => waits[i] = retry.retry_max_delay

\* C18: when an attempt fails with a validation-class failure (the
\* HTTPStatusError of raise_for_status), the wrapper raises that failure
\* unchanged in the same step: no backoff wait is made and no attempt follows.
C18_StatusErrorNotRetried ==
    [][(invoked' = invoked + 1 /\ last_error' = "HTTPStatusError" /\ rpc' # "returned")
          => /\ rpc' = "raised"
             /\ completion'.kind = "HTTPStatusError"
             /\ waits' = waits]_vars

\* C19: when a wrapper call ends because its attempts are used up, it has
\* made exactly N = max_retries attempts and N - 1 waits, and the error it
\* raises is the wrapper's retry-exhausted error (APIError) carrying the
\* cause of the last failed attempt and the number N.
C19_ExhaustionReported ==
    (rpc = "raised" /\ IsHTTPError(last_error)) =>
        /\ invoked = retry.max_retries
        /\ Len(waits) = retry.max_retries - 1
        /\ completion.kind = "APIError"
        /\ completion.cause = last_error
        /\ completion.attempts = retry.max_retries

\* an add_request step that makes the pending list reach batch_size
SizeReached ==
    /\ Len(fut') = Len(fut) + 1
    /\ Len(pending') >= batch_size

\* C20: when add_request makes the pending list reach batch_size, the flush
\* task scheduled before is cancelled and the batch is flushed at once: a
\* flush task is executing a batch that holds the new request, no sleep of
\* batch_window stands before it.
C20_SizeReachedFlushesNow ==
    [][SizeReached =>
          /\ \A f \in DOMAIN fpc : fpc[f] = "sleep" => fpc'[f] = "cancelled"
          /\ \E f \in DOMAIN fpc' :
                /\ fpc'[f] = "exec"
                /\ \E i \in DOMAIN fbatch'[f] : fbatch'[f][i] = Len(fut')]_vars

\* an add_request step
Submitted == Len(fut') = Len(fut) + 1

\* flush task f takes its batch in this step
TakesBatch(f) == f \in DOMAIN fpc /\ fpc[f] = "locked" /\ fpc'[f] = "exec"

\* C21: an add_request that leaves the pending list below batch_size
\* schedules exactly one flush when none is scheduled and no flush when one
\* is; a flush takes its batch exactly batch_window after it was scheduled.
C21_OneFlushAfterWindow ==
    [][/\ (Submitted /\ Len(pending') < batch_size) =>
             IF batch_task = NoTask
             THEN /\ Len(fpc') = Len(fpc) + 1
                  /\ fpc'[Len(fpc')] = "sleep"
                  /\ batch_task' = Len(fpc')
                  /\ \A f \in DOMAIN fpc : fpc'[f] = fpc[f]
             ELSE fpc' = fpc /\ batch_task' = batch_task
       /\ \A f \in DOMAIN fpc :
             TakesBatch(f) => now = fcreated[f] + batch_window]_vars

\* two requests stayed below batch_size and were flushed together by the
\* only flush ever scheduled, batch_window after the first of them
C21_Witness ==
    /\ batch_size > 2
    /\ Len(fpc) = 1 /\ fpc[1] = "exec"
    /\ Len(fbatch[1]) = 2
    /\ appended[1] < appended[2]
    /\ now = appended[1] + batch_window

\* C22: the flush that contains a request takes its batch at most
\* batch_window after the request was appended, whatever add_request calls
\* come later.
C22_WindowBoundsWait ==
    [][\A f \in DOMAIN fpc :
          TakesBatch(f) =>
              \A i \in DOMAIN fbatch'[f] :
                  now - appended[fbatch'[f][i]] <= batch_window]_vars

\* the flush tasks that are scheduled: sleeping or about to take a batch
ScheduledFlushes == {f \in DOMAIN fpc : fpc[f] \in {"sleep", "locked"}}

\* C23: every submitted request is resolved in the end without a further
\* add_request call.  Flush tasks are created by add_request only, so this
\* requires that whenever requests are pending a flush is scheduled; a
\* request left pending with no flush scheduled waits for ever.
C23_PendingHasFlush == pending # <<>> => ScheduledFlushes # {}

\* C24: at most one flush of the batcher is scheduled or executing its
\* physical operation at any time.
C24_OneFlushAtATime ==
    Cardinality({f \in DOMAIN fpc : fpc[f] \in {"sleep", "locked", "exec"}}) <= 1

\* flush task f sets the futures of its batch in this step
Finishes(f) == f \in DOMAIN fpc /\ fpc[f] = "exec" /\ fpc'[f] = "done"

\* the requests of a batch
Requests(batch) == {batch[i] : i \in DOMAIN batch}

\* C25: a flush takes exactly the first min(batch_size, number pending)
\* entries of the pending list in order and leaves the others pending in
\* order; it passes them to the physical operation once, and no physical
\* operation is started otherwise; a waiter that receives a result receives
\* the element of the result sequence at its own position (written as its
\* own request number).
C25_FlushTakesPrefixInOrder ==
    [][/\ \A f \in DOMAIN fpc :
             TakesBatch(f) =>
                 LET n == IF Len(pending) < batch_size THEN Len(pending)
                                                        ELSE batch_size
                 IN /\ Len(fbatch'[f]) = n
                    /\ \A i \in 1..n : fbatch'[f][i] = pending[i]
                    /\ Len(pending') = Len(pending) - n
                    /\ \A i \in 1..Len(pending') : pending'[i] = pending[i + n]
                    /\ Len(ops') = Len(ops) + 1
                    /\ ops'[Len(ops')] = fbatch'[f]
       /\ ops' # ops => \E f \in DOMAIN fpc : TakesBatch(f)
       /\ \A r \in DOMAIN fut' :
             fut'[r].state = "result" => fut'[r].value = r]_vars

\* a flush took two of three pending requests, left the third pending and
\* both waiters have received their results
C25_Witness ==
    \E f \in DOMAIN fpc :
        /\ fpc[f] = "done"
        /\ fbatch[f] = <<1, 2>>
        /\ pending = <<3>>
        /\ fut[1].state = "result" /\ fut[2].state = "result"

\* C26: when the physical operation of a batch fails, every waiter of the
\* batch that is not done is rejected with the same error, none of them
\* receives a result, no physical operation is started for the batch again
\* and the futures of the other batches are left as they were.
C26_BatchFailsAsAWhole ==
    [][\A f \in DOMAIN fpc :
          (Finishes(f) /\ \E r \in Requests(fbatch[f]) : fut'[r].state = "error") =>
              /\ \A r \in Requests(fbatch[f]) :
                    fut[r].state = "pending" =>
                        /\ fut'[r].state = "error"
                        /\ fut'[r].value = BatchError(f)
              /\ \A r \in Requests(fbatch[f]) : fut'[r].state # "result"
              /\ ops' = ops /\ pending' = pending
              /\ \A r \in DOMAIN fut \ Requests(fbatch[f]) : fut'[r] = fut[r]]_vars

\* a batch of two failed, both waiters hold its error, and the waiter of
\* another batch holds a result
C26_Witness ==
    \E f \in DOMAIN fpc :
        /\ fpc[f] = "done" /\ Len(fbatch[f]) = 2
        /\ \A r \in Requests(fbatch[f]) :
              fut[r].state = "error" /\ fut[r].value = BatchError(f)
        /\ \E r \in DOMAIN fut \ Requests(fbatch[f]) : fut[r].state = "result"

\* C27: when a flush has finished, every future of its batch that its
\* caller has not cancelled has been set exactly once, to a result or to an
\* error, also when the result sequence is shorter or longer than the batch.
C27_SingleResolution ==
    \A f \in DOMAIN fpc :
        fpc[f] = "done" =>
            \A r \in Requests(fbatch[f]) :
                fut[r].state # "cancelled" =>
                    fut[r].state \in {"result", "error"} /\ fut[r].sets = 1

\* C28: a request whose caller was cancelled before the flush is no longer
\* in the pending list, so it is in no batch taken afterwards.
C28_CancelRemovesEntry ==
    \A i \in DOMAIN pending : fut[pending[i]].state # "cancelled"

\* C29: the retry wrappers record their activity in the metrics registry:
\* once the wrapped operation has been invoked, some counter of the registry
\* holds the number of attempts made.
C29_AttemptsCounted ==
    invoked > 0 =>
        \E m \in DOMAIN metrics_counters : metrics_counters[m] = invoked

\* the sum of the values passed to increment for the metric in the calls h
RECURSIVE SumIncrements(_, _)
SumIncrements(h, metric) ==
    IF h = <<>> THEN 0
    ELSE SumIncrements(Tail(h), metric)
             + (IF Head(h).op = "increment" /\ Head(h).metric = metric
                THEN Head(h).value ELSE 0)

\* the durations passed to record_time for the metric in the calls h, in order
RECURSIVE Samples(_, _)
Samples(h, metric) ==
    IF h = <<>> THEN <<>>
    ELSE (IF Head(h).op = "record_time" /\ Head(h).metric = metric
          THEN <<Head(h).value>> ELSE <<>>) \o Samples(Tail(h), metric)

\* reading a counter and a timer of the Metrics object
MetricsCounter(metric) ==
    IF metric \in DOMAIN metrics_counters THEN metrics_counters[metric] ELSE 0
TimerSamples(metric) ==
    IF metric \in DOMAIN timers THEN timers[metric] ELSE <<>>

\* C30: no update is lost: each counter equals the sum of the values passed
\* to increment for its name, and each timer holds exactly one sample per
\* record_time call for its name, in call order.
C30_NoLostUpdate ==
    \A m \in MetricNames :
        /\ MetricsCounter(m) = SumIncrements(recorded, m)
        /\ TimerSamples(m) = Samples(recorded, m)

\* a counter was incremented twice by different values and a timer of the
\* same name holds two samples
C30_Witness ==
    \E m \in MetricNames :
        /\ MetricsCounter(m) = 3
        /\ Len(TimerSamples(m)) = 2
        /\ Len(recorded) = 4

\* C31: the dictionary get_metrics returns reports every counter with its
\* value and every timer that has a sample with its count and average at
\* the moment of the call, and no later step changes a dictionary that was
\* already returned.
C31_SnapshotIsACopy ==
    [][/\ \A i \in DOMAIN snapshots : snapshots'[i] = snapshots[i]
       /\ Len(snapshots') > Len(snapshots) =>
             LET snap == snapshots'[Len(snapshots')]
             IN /\ Len(snapshots') = Len(snapshots) + 1
                /\ snap.counters = metrics_counters
                /\ DOMAIN snap.timers =
                       {m \in MetricNames : Samples(recorded, m) # <<>>}
                /\ \A m \in DOMAIN snap.timers :
                      /\ snap.timers[m].count = Len(Samples(recorded, m))
                      /\ snap.timers[m].avg =
                             <<SeqSum(Samples(recorded, m)),
                               Len(Samples(recorded, m))>>]_vars

\* a snapshot taken with a counter and a timer of one sample still reports
\* them after the counter was incremented and the timer got another sample
C31_Witness ==
    \E i \in DOMAIN snapshots : \E m \in MetricNames :
        /\ m \in DOMAIN snapshots[i].counters
        /\ snapshots[i].counters[m] < MetricsCounter(m)
        /\ m \in DOMAIN snapshots[i].timers
        /\ snapshots[i].timers[m].count = 1
        /\ Len(TimerSamples(m)) = 2

\* C32: no counter decreases, no counter name disappears, the number of
\* samples of a timer never decreases, and get_metrics changes nothing in
\* the registry.
C32_AppendOnly ==
    [][/\ \A m \in DOMAIN metrics_counters :
             m \in DOMAIN metrics_counters'
                 /\ metrics_counters'[m] >= metrics_counters[m]
       /\ \A m \in DOMAIN timers :
             m \in DOMAIN timers' /\ Len(timers'[m]) >= Len(timers[m])
       /\ snapshots' # snapshots =>
             (metrics_counters' = metrics_counters /\ timers' = timers)]_vars

\* a counter and a timer have both grown since a snapshot was taken, and a
\* second snapshot was taken afterwards
C32_Witness ==
    /\ Len(snapshots) = 2
    /\ \E m \in MetricNames :
          /\ m \in DOMAIN snapshots[1].counters
          /\ snapshots[1].counters[m] < snapshots[2].counters[m]
          /\ snapshots[2].counters[m] = MetricsCounter(m)
    /\ \E m \in MetricNames :
          /\ m \in DOMAIN snapshots[1].timers
          /\ snapshots[1].timers[m].count < Len(TimerSamples(m))

\* get_connection of task t resumes in this step with a dequeued connection
\* whose probe fails
DequeuedInvalid(t) ==
    /\ pc[t] = "probe" /\ pc'[t] # "probe"
    /\ ~ValidateConnectionSync(dequeued[t])

\* C33: when get_connection dequeues an idle connection whose probe fails,
\* the connection is closed and out of the active set afterwards and the
\* call goes on to create a connection: it does not fail for lack of
\* capacity, also when validate_connections removed the dead connection from
\* the active set before.
C33_InvalidIdleAbsorbed ==
    [][\A t \in Tasks :
          DequeuedInvalid(t) =>
              /\ dequeued[t] \in closed'
              /\ dequeued[t] \notin active'
              /\ result'[t].msg # "Maximum connections reached"]_vars

\* C34: a get_connection call that completes while no caller holds a
\* connection and every idle connection answers its probe does not fail
\* with "Maximum connections reached", also right after
\* validate_connections was run on a freshly constructed pool.
C34_PoolAvailable ==
    [][\A t \in Tasks :
          (/\ JustCompletedGet(t)
           /\ CheckedOut = {}
           /\ dequeued[t] # NoConn => ValidateConnectionSync(dequeued[t])
           /\ \A c \in QueueEntries(queue) : ValidateConnectionSync(c)) =>
              result'[t].msg # "Maximum connections reached"]_vars

\* return_connection of task t runs its body in this step
ReturnCompletes(t) == pc[t] = "ret" /\ lock = t /\ pc'[t] = "idle"

\* C35: return_connection called with a connection that is not in the
\* active set leaves the active set and the idle queue unchanged, increments
\* no metric and completes without an error.
C35_ReturnOfUnknownIsNoOp ==
    [][\A t \in Tasks :
          (ReturnCompletes(t) /\ arg[t] \notin active) =>
              /\ active' = active
              /\ queue' = queue
              /\ counters' = counters
              /\ poolMetrics' = poolMetrics
              /\ closed' = closed
              /\ result' = result]_vars

\* return_connection holds the lock and was passed a connection that a
\* failed probe had discarded from the active set
C35_Witness ==
    \E t \in Tasks :
        /\ pc[t] = "ret" /\ lock = t
        /\ arg[t] \in discarded /\ arg[t] \notin active

\* C36: a call of a retry wrapper that returns normally returns the
\* response of a successful attempt; it never returns without having made
\* one, whatever max_retries is.
C36_ResultOrError ==
    rpc = "returned" => (completion.kind = "response" /\ invoked > 0)

\* the number of places request r has in the sequence q
Places(q, r) == Cardinality({i \in DOMAIN q : q[i] = r})

\* the number of places request r has in the batches of the sequence bs
RECURSIVE PlacesInBatches(_, _)
PlacesInBatches(bs, r) ==
    IF bs = <<>> THEN 0
    ELSE Places(Head(bs), r) + PlacesInBatches(Tail(bs), r)

\* C37: every request appended by add_request is either still in the
\* pending list or in the batch of exactly one flush, never both and never
\* neither, and it is passed to the physical operation exactly when it is
\* in a batch: no request is processed twice and none is dropped, also when
\* flush tasks are cancelled and rescheduled.
C37_AtMostOneBatch ==
    \A r \in DOMAIN fut :
        /\ Places(pending, r) + PlacesInBatches(fbatch, r) = 1
        /\ PlacesInBatches(ops, r) = PlacesInBatches(fbatch, r)

\* a sleeping flush task was cancelled and replaced, two batches were taken
\* by different flush tasks and a request is still pending
C37_Witness ==
    /\ \E f \in DOMAIN fpc : fpc[f] = "cancelled"
    /\ Cardinality({f \in DOMAIN fpc : fbatch[f] # <<>>}) = 2
    /\ Len(ops) = 2
    /\ pending # <<>>

\* C38: after any sequence of set, get and cleanup calls a SearchCache with
\* max_size >= 1 holds at most max_size entries; the entry a set evicted was
\* the oldest (every entry left is at least as young); a get returns an
\* entry only when its age is less than ttl, and an entry found at age ttl
\* or more is deleted and not returned.  RepositoryCache.get returns only
\* entries younger than cache_duration.
C38_BoundedAndFresh ==
    /\ (SearchCacheBuilt /\ search_cache.max_size >= 1) =>
           LET c == search_cache.cache IN
           /\ Len(c) <= search_cache.max_size
           /\ (search_call.op = "set" /\ search_call.evicted) =>
                 \A i \in 1..Len(c) : c[i].timestamp >= search_call.evicted_ts
           /\ (search_call.op = "get" /\ search_call.found) =>
                 /\ search_call.hit
                 /\ search_call.age < search_cache.ttl
           /\ (search_call.op = "get" /\ search_call.hit
                 /\ search_call.age >= search_cache.ttl) =>
                 /\ ~search_call.found
                 /\ search_call.key \notin Keys(c)
    /\ cache_got.found => cache_got.age < cache_duration

\* a full cache of two entries whose latest set evicted an entry older than
\* the one it kept
C38_Witness ==
    /\ SearchCacheBuilt /\ search_cache.max_size = 2
    /\ Len(search_cache.cache) = 2
    /\ search_call.op = "set" /\ search_call.evicted
    /\ \A i \in 1..2 : search_cache.cache[i].timestamp > search_call.evicted_ts

====
